---- MODULE Spec2Model ----
(***************************************************************************)
(* A model of gwildor: the generic lexer engine (lexer.py), the parser     *)
(* combinators (combinators.py), the structural equality mixin             *)
(* (equality.py, ast.py) and the arithmetic-expression grammar (parser.py).*)
(*                                                                         *)
(* Strings are sequences of one-character strings, so that matching,       *)
(* slicing and int() act on their characters.  Positions are 0-based as in *)
(* the source; sequences are 1-based, so tokens[pos] is tokens[pos + 1].   *)
(***************************************************************************)
EXTENDS Integers, Sequences, FiniteSets, TLC

VARIABLES
    \* lexer(characters, token_exprs): its arguments, locals and outcome
    characters, token_exprs, pos, tokens, iterations, pc, stderr, exit_status,
    returned,
    \* one application parser(tokens, pos) of a combinator and its outcome
    call, result, expected,
    \* one comparison self.__eq__(other) and its outcome
    eq_call, eq_result,
    \* the Lazy instances of one grammar: their fields and their history
    lazy, lazy_call, lazy_result

lexvars == <<characters, token_exprs, pos, tokens, iterations, pc, stderr,
             exit_status, returned>>
callvars == <<call, result, expected>>
eqvars == <<eq_call, eq_result>>
lazyvars == <<lazy, lazy_call, lazy_result>>
vars == <<lexvars, callvars, eqvars, lazyvars>>

----------------------------------------------------------------------------
(* Bounds of the model *)

MaxText == 3        \* longest text given to the lexer
MaxRules == 2       \* longest rule table given to the lexer
MaxIterations == 5  \* iterations of the lexer's while loop that are followed
MaxLen == 2         \* longest token sequence given to a combinator
MaxNodes == 2       \* operators and groups of a generated expression
MaxLazyLen == 3     \* longest token sequence given to the grammar's Lazy objects

\* a parse constructs at most one Lazy object for each "(" it consumes
MaxInst == MaxLazyLen + MaxNodes

----------------------------------------------------------------------------
(* Python values *)

None == [t |-> "None"]
Raise(e) == [t |-> "Raise", exc |-> e]
PyInt(n) == [t |-> "int", i |-> n]
PyStr(s) == [t |-> "str", s |-> s]
PyTuple(a, b) == [t |-> "tuple", fst |-> a, snd |-> b]
PyList(xs) == [t |-> "list", items |-> xs]

SeqsUpTo(S, n) == UNION {[1..k -> S] : k \in 0..n}

----------------------------------------------------------------------------
(* lexer.py: the regular expressions of a rule table.  re is an external   *)
(* facility; the model has literals, [cls]+ and [cls]* (greedy), matched   *)
(* at an offset as regex.match(characters, pos) matches.                   *)

NoMatch == -1
NoTag == "None"

Letters == {"i", "f"}
Digits == {"1"}
Spaces == {" "}
Alphabet == Letters \cup Digits \cup Spaces

Lit(s) == [re |-> "lit", lit |-> s]
Plus(c) == [re |-> "plus", cls |-> c]
Star(c) == [re |-> "star", cls |-> c]

RECURSIVE RunEnd(_, _, _)
\* the end of the longest run of characters of cls starting at offset p
RunEnd(cls, chars, p) ==
    IF p < Len(chars) /\ chars[p + 1] \in cls THEN RunEnd(cls, chars, p + 1)
    ELSE p

\* regex.match(characters, pos).end(0), or NoMatch when match is None
MatchEnd(pattern, chars, p) ==
    CASE pattern.re = "lit" ->
            IF /\ p + Len(pattern.lit) <= Len(chars)
               /\ SubSeq(chars, p + 1, p + Len(pattern.lit)) = pattern.lit
            THEN p + Len(pattern.lit) ELSE NoMatch
      [] pattern.re = "plus" ->
            IF RunEnd(pattern.cls, chars, p) > p
            THEN RunEnd(pattern.cls, chars, p) ELSE NoMatch
      [] pattern.re = "star" -> RunEnd(pattern.cls, chars, p)

RulePool ==
    { <<Lit(<<"i", "f">>), "KEYWORD">>,
      <<Plus(Letters), "ID">>,
      <<Plus(Digits), "INT">>,
      <<Plus(Spaces), NoTag>>,
      <<Star(Digits), "INT">>,
      <<Star(Spaces), NoTag>> }

\* a lexer that takes the longest match at the cursor, not the first rule's
FirstMatchLongest(rules, chars, p) ==
    LET hits == {k \in 1..Len(rules) : MatchEnd(rules[k][1], chars, p) # NoMatch}
        best(k) == \A j \in hits :
                      \/ MatchEnd(rules[j][1], chars, p) < MatchEnd(rules[k][1], chars, p)
                      \/ MatchEnd(rules[j][1], chars, p) = MatchEnd(rules[k][1], chars, p)
                         /\ k <= j
    IN IF hits = {} THEN 0 ELSE CHOOSE k \in hits : best(k)

\* the rules of the table tried before the for loop ends: the index of the
\* rule at which it breaks, or 0 when it runs to the end with match = None
FirstMatch(rules, chars, p) ==
    LET hits == {k \in 1..Len(rules) : MatchEnd(rules[k][1], chars, p) # NoMatch}
    IN IF hits = {} THEN 0 ELSE CHOOSE k \in hits : \A j \in hits : k <= j

\* if tag: (None is false)
TagTruthy(tag) == tag # NoTag

LexInit ==
    /\ characters \in SeqsUpTo(Alphabet, MaxText)
    /\ token_exprs \in SeqsUpTo(RulePool, MaxRules)
    /\ pos = 0
    /\ tokens = <<>>
    /\ iterations = 0
    /\ pc = "while"
    /\ stderr = <<>>
    /\ exit_status = None
    /\ returned = None

\* one iteration of the while loop in which a rule matches
LexMatch ==
    /\ pc = "while"
    /\ pos < Len(characters)
    /\ iterations < MaxIterations
    /\ FirstMatch(token_exprs, characters, pos) # 0
    /\ LET k == FirstMatch(token_exprs, characters, pos)
           pattern == token_exprs[k][1]
           tag == token_exprs[k][2]
           end == MatchEnd(pattern, characters, pos)
           text == SubSeq(characters, pos + 1, end)
       IN /\ tokens' = IF TagTruthy(tag) THEN Append(tokens, <<text, tag>>)
                       ELSE tokens
          /\ pos' = end
    /\ iterations' = iterations + 1
    /\ UNCHANGED <<characters, token_exprs, pc, stderr, exit_status, returned>>

\* a lexer that skips a character no rule matches and goes on
LexIllegalSkip ==
    /\ pc = "while"
    /\ pos < Len(characters)
    /\ iterations < MaxIterations
    /\ FirstMatch(token_exprs, characters, pos) = 0
    /\ pos' = pos + 1
    /\ iterations' = iterations + 1
    /\ UNCHANGED <<characters, token_exprs, tokens, pc, stderr, exit_status, returned>>

\* the iteration in which no rule matches: the diagnostic and sys.exit(1)
LexIllegal ==
    /\ pc = "while"
    /\ pos < Len(characters)
    /\ FirstMatch(token_exprs, characters, pos) = 0
    /\ stderr' = <<"Illegal character: ", characters[pos + 1]>>
    /\ exit_status' = PyInt(1)
    /\ pc' = "exit"
    /\ UNCHANGED <<characters, token_exprs, pos, tokens, iterations, returned>>

\* the loop condition is false: return tokens
LexReturn ==
    /\ pc = "while"
    /\ ~(pos < Len(characters))
    /\ returned' = PyList(tokens)
    /\ pc' = "return"
    /\ UNCHANGED <<characters, token_exprs, pos, tokens, iterations, stderr,
                   exit_status>>

----------------------------------------------------------------------------
(* combinators.py: results and parsers.  A parser returns a Result or None; *)
(* an exception raised while it runs is the outcome Raise(exc).             *)

Result(value, p) == [t |-> "Result", value |-> value, pos |-> p]
PyFn(op) == [t |-> "fn", op |-> op]
Inst(cls, d) == [t |-> "inst", cls |-> cls, dict |-> d]

Reserved(value, tag) == [kind |-> "Reserved", value |-> value, tag |-> tag]
Tag(tag) == [kind |-> "Tag", tag |-> tag]
Concat(left, right) == [kind |-> "Concat", left |-> left, right |-> right]
Alternate(left, right) == [kind |-> "Alternate", left |-> left, right |-> right]
Opt(parser) == [kind |-> "Opt", parser |-> parser]
Rep(parser) == [kind |-> "Rep", parser |-> parser]
Process(parser, fn) == [kind |-> "Process", parser |-> parser, fn |-> fn]
Lazy(parser_fn, inst) == [kind |-> "Lazy", parser_fn |-> parser_fn, inst |-> inst]
Phrase(parser) == [kind |-> "Phrase", parser |-> parser]
Exp(parser, separator) == [kind |-> "Exp", parser |-> parser, separator |-> separator]

\* the functions given to Process: a name, and what a closure captures
Fn(name) == [f |-> name]
process_next(result_value) == [f |-> "process_next", result_value |-> result_value]

\* the exception tokens[pos] raises, "" when it raises none: a list index
\* is an integer in -len..len-1 (an old-style instance has no __index__)
IndexExc(toks, p) ==
    IF p.t = "int"
    THEN IF p.i < Len(toks) /\ p.i >= -Len(toks) THEN "" ELSE "IndexError"
    ELSE IF p.t = "inst" THEN "AttributeError" ELSE "TypeError"

\* tokens[pos] where it raises nothing (a negative index counts from the end)
Item(toks, p) == IF p.i >= 0 THEN toks[p.i + 1] ELSE toks[Len(toks) + p.i + 1]

DigitValue ==
    [c \in {"0", "1", "2", "3", "4", "5", "6", "7", "8", "9"} |->
        CASE c = "0" -> 0 [] c = "1" -> 1 [] c = "2" -> 2 [] c = "3" -> 3
          [] c = "4" -> 4 [] c = "5" -> 5 [] c = "6" -> 6 [] c = "7" -> 7
          [] c = "8" -> 8 [] c = "9" -> 9]

RECURSIVE ParseInt(_)
\* int(s) of a non-empty string of decimal digits
ParseInt(s) ==
    IF Len(s) = 1 THEN DigitValue[s[1]]
    ELSE 10 * ParseInt(SubSeq(s, 1, Len(s) - 1)) + DigitValue[s[Len(s)]]

\* fn(value) for the functions parser.py gives to Process, and process_next
CallFn(fn, v) ==
    CASE fn.f = "int" ->
            IF v.t = "int" THEN v
            ELSE IF v.t # "str" THEN Raise("TypeError")
            ELSE IF v.s # <<>> /\ \A k \in 1..Len(v.s) : v.s[k] \in DOMAIN DigitValue
            THEN PyInt(ParseInt(v.s)) ELSE Raise("ValueError")
      [] fn.f = "IntAexp" -> Inst("IntAexp", [i |-> v])
      [] fn.f = "VarAexp" -> Inst("VarAexp", [name |-> v])
      [] fn.f = "process_group" ->
            IF v.t = "tuple" /\ v.fst.t = "tuple" THEN v.fst.snd
            ELSE Raise("TypeError")
      [] fn.f = "process_binop" -> PyFn(v)
      [] fn.f = "process_next" ->
            IF v.t = "tuple" /\ v.fst.t = "fn"
            THEN Inst("BinopAexp",
                      [op |-> v.fst.op, left |-> fn.result_value, right |-> v.snd])
            ELSE Raise("TypeError")

----------------------------------------------------------------------------
(* parser.py: the arithmetic-expression grammar.  The tags RESERVED, INT   *)
(* and ID are the symbols parser.py imports; "is" on them is equality.     *)

id == Tag("ID")
num == Process(Tag("INT"), Fn("int"))
aexp_precedence_list == << << <<"*">>, <<"/">> >>, << <<"+">>, <<"-">> >> >>

keyword(kw) == Reserved(kw, "RESERVED")

aexp_value == Alternate(Process(num, Fn("IntAexp")), Process(id, Fn("VarAexp")))

\* inst names the Lazy object this call of aexp_group constructs
aexp_group(inst) ==
    Process(Concat(Concat(keyword(<<"(">>), Lazy("aexp", inst)), keyword(<<")">>)),
            Fn("process_group"))

aexp_term(inst) == Alternate(aexp_value, aexp_group(inst))

process_binop == Fn("process_binop")

RECURSIVE ReduceAlternate(_, _)
\* reduce(lambda l, r: l | r, op_parsers) over the first n parsers
ReduceAlternate(op_parsers, n) ==
    IF n = 1 THEN op_parsers[1]
    ELSE Alternate(ReduceAlternate(op_parsers, n - 1), op_parsers[n])

any_op_in_list(ops) ==
    ReduceAlternate([k \in 1..Len(ops) |-> keyword(ops[k])], Len(ops))

RECURSIVE PrecedenceLoop(_, _, _, _)
\* the for loop of precedence over precedence_levels[1:], from level k on
PrecedenceLoop(parser, precedence_levels, k, combine) ==
    IF k > Len(precedence_levels) THEN parser
    ELSE PrecedenceLoop(
            Exp(parser, Process(any_op_in_list(precedence_levels[k]), combine)),
            precedence_levels, k + 1, combine)

precedence(value_parser, precedence_levels, combine) ==
    PrecedenceLoop(
        Exp(value_parser, Process(any_op_in_list(precedence_levels[1]), combine)),
        precedence_levels, 2, combine)

\* the entry point Lazy(aexp) names: the precedence parser over aexp_term
aexp(inst) == precedence(aexp_term(inst), aexp_precedence_list, process_binop)

----------------------------------------------------------------------------
(* equality.py, ast.py: x == y on the values of the model.  ast.py's nodes *)
(* are instances Inst(cls, dict) with dict their __dict__.  An outcome is  *)
(* "True", "False" or the name of the exception raised.  A dict comparison *)
(* compares other[key] == self[key] key by key, in the dict's own order,   *)
(* and stops at the first outcome that is not True: every order is kept.   *)

RECURSIVE EqOutcomes(_, _), EqualityEq(_, _), DictEq(_, _)

\* Equality.__eq__(self, other): both entries of logic are evaluated, so
\* other.__dict__ is read whatever isinstance says
EqualityEq(self, other) ==
    IF other.t # "inst" THEN {"AttributeError"}
    ELSE {IF o = "True" /\ other.cls # self.cls THEN "False" ELSE o :
            o \in DictEq(self.dict, other.dict)}

\* self.__dict__ == other.__dict__
DictEq(a, b) ==
    LET shared == DOMAIN a \cap DOMAIN b
        outs(f) == EqOutcomes(b[f], a[f])
        stops == UNION {outs(f) \ {"True"} : f \in shared}
    IN IF Cardinality(DOMAIN a) # Cardinality(DOMAIN b) THEN {"False"}
       ELSE IF DOMAIN a # DOMAIN b THEN {"False"} \cup stops
       ELSE (IF \A f \in shared : "True" \in outs(f) THEN {"True"} ELSE {})
            \cup stops

\* x == y: an instance's __eq__ is called, on x or else reflected on y;
\* other values compare by type and value
EqOutcomes(x, y) ==
    IF x.t = "inst" THEN EqualityEq(x, y)
    ELSE IF y.t = "inst" THEN EqualityEq(y, x)
    ELSE {IF x = y THEN "True" ELSE "False"}

----------------------------------------------------------------------------
(* combinators.py: applying a parser.  Lazy is the one parser with state:  *)
(* st.parser[k] is the field self.parser of the Lazy object k, and          *)
(* st.fn_calls[k] counts the calls of its parser_fn and st.applied[k] says *)
(* whether it was applied never, once or again.  Apply returns the outcome *)
(* and the state after.                                                    *)

InstIds == 0..MaxInst

LazyInit ==
    [parser |-> [k \in InstIds |-> None],
     fn_calls |-> [k \in InstIds |-> 0],
     applied |-> [k \in InstIds |-> "never"]]

Out(o, st) == [out |-> o, st |-> st]

Applied(history) == IF history = "never" THEN "once" ELSE "again"

\* self.parser_fn(): aexp() builds the grammar anew, with a new Lazy object
CallParserFn(parser_fn, inst) ==
    CASE parser_fn = "aexp" -> aexp(inst + 1)

\* a Lazy that calls parser_fn at every application
LazyResolveEveryTime(st, lz) ==
    [st EXCEPT !.parser[lz.inst] = CallParserFn(lz.parser_fn, lz.inst),
               !.fn_calls[lz.inst] = @ + 1,
               !.applied[lz.inst] = Applied(@)]

\* if not self.parser: self.parser = self.parser_fn()
LazyResolve(st, lz) ==
    IF st.parser[lz.inst] = None
    THEN [st EXCEPT !.parser[lz.inst] = CallParserFn(lz.parser_fn, lz.inst),
                    !.fn_calls[lz.inst] = @ + 1,
                    !.applied[lz.inst] = Applied(@)]
    ELSE [st EXCEPT !.applied[lz.inst] = Applied(@)]

\* Reserved.__call__: the list logic is built, tokens[pos] included, before
\* all(logic) reads it
ReservedCall(p, toks, ps) ==
    IF IndexExc(toks, ps) # "" THEN Raise(IndexExc(toks, ps))
    ELSE IF /\ ps.i < Len(toks)
            /\ Item(toks, ps)[1] = p.value
            /\ Item(toks, ps)[2] = p.tag
         THEN Result(PyStr(Item(toks, ps)[1]), PyInt(ps.i + 1))
         ELSE None

\* Tag.__call__
TagCall(p, toks, ps) ==
    IF IndexExc(toks, ps) # "" THEN Raise(IndexExc(toks, ps))
    ELSE IF ps.i < Len(toks) /\ Item(toks, ps)[2] = p.tag
         THEN Result(PyStr(Item(toks, ps)[1]), PyInt(ps.i + 1))
         ELSE None

\* Concat.__call__'s return on double success
ConcatResult(left_result, right_result) ==
    Result(PyTuple(left_result.value, right_result.value), right_result.value)

\* Process.__call__ on a result of its parser: fn may raise
ProcessResult(fn, r) ==
    IF CallFn(fn, r.value).t = "Raise" THEN CallFn(fn, r.value)
    ELSE Result(CallFn(fn, r.value), r.pos)

\* Phrase.__call__'s test of its parser's result: result.pos == len(tokens)
\* has one outcome, as len(tokens) is an int
PhraseResult(r, toks) ==
    IF r.t # "Result" THEN None
    ELSE LET o == CHOOSE o \in EqOutcomes(r.pos, PyInt(Len(toks))) : TRUE
         IN CASE o = "True" -> r
              [] o = "False" -> None
              [] OTHER -> Raise(o)

RECURSIVE Apply(_, _, _, _), RepLoop(_, _, _, _, _), ExpLoop(_, _, _, _)

\* parser(tokens, pos) with the Lazy objects in state st
Apply(p, toks, ps, st) ==
    CASE p.kind = "Reserved" -> Out(ReservedCall(p, toks, ps), st)
      [] p.kind = "Tag" -> Out(TagCall(p, toks, ps), st)
      [] p.kind = "Concat" ->
            LET l == Apply(p.left, toks, ps, st)
            IN IF l.out.t # "Result" THEN l
               ELSE LET r == Apply(p.right, toks, l.out.pos, l.st)
                    IN IF r.out.t # "Result" THEN r
                       ELSE Out(ConcatResult(l.out, r.out), r.st)
      [] p.kind = "Alternate" ->
            LET l == Apply(p.left, toks, ps, st)
            IN IF l.out.t = "None" THEN Apply(p.right, toks, ps, l.st) ELSE l
      [] p.kind = "Opt" ->
            LET r == Apply(p.parser, toks, ps, st)
            IN IF r.out.t = "None" THEN Out(Result(None, ps), r.st) ELSE r
      [] p.kind = "Rep" -> RepLoop(p, toks, <<>>, ps, st)
      [] p.kind = "Process" ->
            LET r == Apply(p.parser, toks, ps, st)
            IN IF r.out.t = "Result" THEN Out(ProcessResult(p.fn, r.out), r.st)
               ELSE r
      [] p.kind = "Lazy" ->
            LET st1 == LazyResolve(st, p)
            IN Apply(st1.parser[p.inst], toks, ps, st1)
      [] p.kind = "Phrase" ->
            LET r == Apply(p.parser, toks, ps, st)
            IN IF r.out.t = "Raise" THEN r
               ELSE Out(PhraseResult(r.out, toks), r.st)
      [] p.kind = "Exp" ->
            LET r == Apply(p.parser, toks, ps, st)
            IN IF r.out.t = "Result" THEN ExpLoop(p, toks, r.out, r.st) ELSE r

\* Rep.__call__'s loop: results so far, and the position of the next try
RepLoop(p, toks, results, ps, st) ==
    LET r == Apply(p.parser, toks, ps, st)
    IN CASE r.out.t = "Raise" -> r
         [] r.out.t = "Result" ->
                RepLoop(p, toks, Append(results, r.out.value), r.out.pos, r.st)
         [] r.out.t = "None" -> Out(Result(PyList(results), ps), r.st)

\* Exp.__call__'s loop: res is the accumulated result; next_parser is
\* self.separator + self.parser ^ process_next, i.e. (separator + parser) ^ fn
ExpLoop(p, toks, res, st) ==
    LET next_parser == Process(Concat(p.separator, p.parser), process_next(res.value))
        next_result == Apply(next_parser, toks, res.pos, st)
    IN CASE next_result.out.t = "Raise" -> next_result
         [] next_result.out.t = "Result" ->
                ExpLoop(p, toks, next_result.out, next_result.st)
         [] next_result.out.t = "None" -> Out(res, next_result.st)

----------------------------------------------------------------------------
(* The inputs of the model *)

NotCalled == [t |-> "NotCalled"]
Tok(text, tag) == <<text, tag>>

\* token sequences and parsers for the combinators
TokenPool ==
    { Tok(<<"a">>, "RESERVED"), Tok(<<"b">>, "RESERVED"), Tok(<<"c">>, "RESERVED"),
      Tok(<<"1">>, "INT") }

Primitives ==
    { Reserved(<<"a">>, "RESERVED"), Reserved(<<"b">>, "RESERVED"),
      Tag("INT"), Tag("RESERVED") }

\* Rep is given parsers that consume a token when they succeed
ParserPool ==
    Primitives
    \cup {num}
    \cup {Opt(q) : q \in Primitives}
    \cup {Concat(l, r) : l \in Primitives, r \in Primitives \cup {num}}
    \cup {Alternate(l, r) : l \in Primitives, r \in Primitives}
    \cup {Rep(q) : q \in Primitives}
    \cup {Phrase(q) : q \in Primitives}
    \cup {Phrase(Concat(l, r)) : l \in Primitives, r \in Primitives}

\* well-formed arithmetic expressions: the token sequence of each with the
\* tree its grammar gives it (* and / bind tighter than + and -, operators
\* of one level group to the left, a group is an atom)
LeafTokens ==
    { Tok(<<"1">>, "INT"), Tok(<<"2">>, "INT"), Tok(<<"3">>, "INT"),
      Tok(<<"4">>, "INT"), Tok(<<"a">>, "ID") }

IntAexp(i) == Inst("IntAexp", [i |-> i])
VarAexp(name) == Inst("VarAexp", [name |-> name])
BinopAexp(op, left, right) ==
    Inst("BinopAexp", [op |-> op, left |-> left, right |-> right])

Level(op) == IF op \in {<<"*">>, <<"/">>} THEN 1 ELSE 2
Operators == {<<"*">>, <<"/">>, <<"+">>, <<"-">>}

LeafExpr(tok) ==
    [toks |-> <<tok>>, level |-> 0,
     ast |-> IF tok[2] = "INT" THEN IntAexp(PyInt(ParseInt(tok[1])))
             ELSE VarAexp(PyStr(tok[1]))]

GroupExpr(e) ==
    [toks |-> <<Tok(<<"(">>, "RESERVED")>> \o e.toks \o <<Tok(<<")">>, "RESERVED")>>,
     level |-> 0, ast |-> e.ast]

BinopExpr(op, l, r) ==
    [toks |-> l.toks \o <<Tok(op, "RESERVED")>> \o r.toks,
     level |-> Level(op), ast |-> BinopAexp(PyStr(op), l.ast, r.ast)]

RECURSIVE ExprsOfSize(_)
\* the expressions with n operators and groups
ExprsOfSize(n) ==
    IF n = 0 THEN {LeafExpr(tok) : tok \in LeafTokens}
    ELSE {GroupExpr(e) : e \in ExprsOfSize(n - 1)}
         \cup UNION { UNION { {BinopExpr(op, l, r) :
                                  l \in {e \in ExprsOfSize(k) : e.level <= Level(op)},
                                  r \in {e \in ExprsOfSize(n - 1 - k) : e.level < Level(op)}} :
                              op \in Operators} :
                      k \in 0..(n - 1)}

ExprsUpTo(n) == UNION {ExprsOfSize(k) : k \in 0..n}

\* values compared by equals
EqAtoms == {None, PyInt(1), PyInt(2), PyStr(<<"x">>), PyStr(<<"+">>)}
RelopBexp(op, left, right) ==
    Inst("RelopBexp", [op |-> op, left |-> left, right |-> right])
AssignmentStatement(name, a) == Inst("AssignmentStatement", [name |-> name, aexp |-> a])
IfStatement(condition, true_stmt, false_stmt) ==
    Inst("IfStatement", [condition |-> condition, true_stmt |-> true_stmt,
                         false_stmt |-> false_stmt])

Aexps0 ==
    {IntAexp(PyInt(1)), IntAexp(PyInt(2)), VarAexp(PyStr(<<"x">>)), VarAexp(PyStr(<<"y">>))}
Aexps1 ==
    {BinopAexp(PyStr(op), l, r) : op \in {<<"+">>, <<"-">>}, l \in Aexps0, r \in Aexps0}
Bexps ==
    {RelopBexp(PyStr(op), l, r) : op \in {<<"+">>, <<"<">>}, l \in Aexps0, r \in Aexps0}
Assignments ==
    {AssignmentStatement(PyStr(n), a) : n \in {<<"x">>, <<"y">>}, a \in Aexps0}
Conditions == {RelopBexp(PyStr(<<"<">>), VarAexp(PyStr(<<"x">>)), IntAexp(PyInt(i))) : i \in 1..2}
Branches == {AssignmentStatement(PyStr(<<"x">>), IntAexp(PyInt(i))) : i \in 1..2}
IfStatements ==
    {IfStatement(c, s1, s2) : c \in Conditions, s1 \in Branches, s2 \in Branches \cup {None}}
Nodes == Aexps0 \cup Aexps1 \cup Bexps \cup Assignments \cup IfStatements

\* token sequences given to the grammar whose Lazy objects are followed
LazyTokenPool == { Tok(<<"(">>, "RESERVED"), Tok(<<"1">>, "INT") }
Grouped ==
    << Tok(<<"(">>, "RESERVED"), Tok(<<"1">>, "INT"), Tok(<<")">>, "RESERVED") >>
Nested ==
    << Tok(<<"(">>, "RESERVED"), Tok(<<"(">>, "RESERVED"), Tok(<<"1">>, "INT"),
       Tok(<<")">>, "RESERVED"), Tok(<<")">>, "RESERVED") >>
LazyStreams == SeqsUpTo(LazyTokenPool, MaxLazyLen) \cup {Grouped, Nested}

----------------------------------------------------------------------------
(* The specifications: one for each part of the program.  The variables of *)
(* the other parts stay as they are initially.                             *)

IdleLex ==
    /\ characters = <<>> /\ token_exprs = <<>> /\ pos = 0 /\ tokens = <<>>
    /\ iterations = 0 /\ pc = "idle" /\ stderr = <<>> /\ exit_status = None
    /\ returned = None
IdleCall == call = None /\ result = NotCalled /\ expected = None
IdleEq == eq_call = None /\ eq_result = "NotCalled"
IdleLazy == lazy = LazyInit /\ lazy_call = None /\ lazy_result = NotCalled

InitLex == LexInit /\ IdleCall /\ IdleEq /\ IdleLazy

NextLex ==
    \/ LexMatch /\ UNCHANGED <<callvars, eqvars, lazyvars>>
    \/ LexIllegal /\ UNCHANGED <<callvars, eqvars, lazyvars>>
    \/ LexReturn /\ UNCHANGED <<callvars, eqvars, lazyvars>>

SpecLex == InitLex /\ [][NextLex]_vars

\* a combinator and its arguments, or the grammar and an expression with or
\* without an unmatched ")" after it
CallInit ==
    /\ result = NotCalled
    /\ \/ /\ expected = None
          /\ \E toks \in SeqsUpTo(TokenPool, MaxLen), q \in ParserPool :
               \E k \in 0..Len(toks) :
                 call = [parser |-> q, tokens |-> toks, pos |-> PyInt(k)]
       \/ \E e \in ExprsUpTo(MaxNodes), q \in {aexp(0), Phrase(aexp(0))},
             rest \in {<<>>, <<Tok(<<")">>, "RESERVED")>>} :
            /\ call = [parser |-> q, tokens |-> e.toks \o rest, pos |-> PyInt(0)]
            /\ expected = e.ast

\* parser(tokens, pos)
Call ==
    /\ result = NotCalled
    /\ result' = Apply(call.parser, call.tokens, call.pos, LazyInit).out
    /\ UNCHANGED <<call, expected>>

InitCall == CallInit /\ IdleLex /\ IdleEq /\ IdleLazy
NextCall == Call /\ UNCHANGED <<lexvars, eqvars, lazyvars>>
SpecCall == InitCall /\ [][NextCall]_vars

EqInit ==
    /\ eq_call \in [self : Nodes, other : Nodes \cup EqAtoms]
    /\ eq_result = "NotCalled"

\* self.__eq__(other)
Eq ==
    /\ eq_result = "NotCalled"
    /\ eq_result' \in EqOutcomes(eq_call.self, eq_call.other)
    /\ UNCHANGED eq_call

InitEq == EqInit /\ IdleLex /\ IdleCall /\ IdleLazy
NextEq == Eq /\ UNCHANGED <<lexvars, callvars, lazyvars>>
SpecEq == InitEq /\ [][NextEq]_vars

\* the grammar aexp() is constructed: its Lazy object 0 exists, unresolved
LazyGrammarInit == IdleLazy

\* the grammar is applied to a token sequence at position 0
GrammarParse ==
    \E toks \in LazyStreams :
        LET r == Apply(aexp(0), toks, PyInt(0), lazy)
        IN /\ lazy' = r.st
           /\ lazy_call' = [applied |-> "aexp", tokens |-> toks, pos |-> PyInt(0)]
           /\ lazy_result' = r.out

\* the grammar's Lazy object is applied to a token sequence at position 0
LazyApply ==
    \E toks \in LazyStreams :
        LET r == Apply(Lazy("aexp", 0), toks, PyInt(0), lazy)
        IN /\ lazy' = r.st
           /\ lazy_call' = [applied |-> "Lazy", tokens |-> toks, pos |-> PyInt(0)]
           /\ lazy_result' = r.out

InitLazy == LazyGrammarInit /\ IdleLex /\ IdleCall /\ IdleEq
NextLazy ==
    \/ GrammarParse /\ UNCHANGED <<lexvars, callvars, eqvars>>
    \/ LazyApply /\ UNCHANGED <<lexvars, callvars, eqvars>>
SpecLazy == InitLazy /\ [][NextLazy]_vars

----------------------------------------------------------------------------
(* The lexer engine *)

RuleMatches(k, cursor) == MatchEnd(token_exprs[k][1], characters, cursor) # NoMatch
NoRuleMatches(cursor) == \A k \in 1..Len(token_exprs) : ~RuleMatches(k, cursor)
FirstRule(cursor) ==
    CHOOSE k \in 1..Len(token_exprs) :
        RuleMatches(k, cursor) /\ \A j \in 1..(k - 1) : ~RuleMatches(j, cursor)

NoTokens == <<Tok(<<>>, "tokenize does not complete")>>

RECURSIVE TokensFrom(_)
\* the tokens from a cursor on: at each cursor the first rule in table order
\* that matches there, a token if it has a tag, then the end of its match
\* (no token sequence where no rule matches or the match is empty)
TokensFrom(cursor) ==
    IF cursor >= Len(characters) THEN <<>>
    ELSE IF NoRuleMatches(cursor) THEN NoTokens
    ELSE LET rule == token_exprs[FirstRule(cursor)]
             end == MatchEnd(rule[1], characters, cursor)
         IN IF end = cursor THEN NoTokens
            ELSE (IF rule[2] # NoTag
                  THEN <<Tok(SubSeq(characters, cursor + 1, end), rule[2])>>
                  ELSE <<>>) \o TokensFrom(end)

\* C4: when tokenize completes, the token sequence it returns is exactly,
\* in input order, the (matched substring, tag) pairs of the first matching
\* rule at each cursor from offset 0, with no token for an untagged match
C4_FirstMatchTokens ==
    pc = "return" => returned = PyList(TokensFrom(0))

\* "iff" under [("if", KEYWORD), ("[a-z]+", ID)]: the first rule wins at
\* offset 0 although the second matches more
C4_Witness ==
    /\ pc = "return"
    /\ characters = <<"i", "f", "f">>
    /\ token_exprs = << <<Lit(<<"i", "f">>), "KEYWORD">>, <<Plus(Letters), "ID">> >>
    /\ returned = PyList(<< Tok(<<"i", "f">>, "KEYWORD"), Tok(<<"f">>, "ID") >>)

Fatal ==
    /\ pc = "exit"
    /\ stderr = <<"Illegal character: ", characters[pos + 1]>>
    /\ exit_status = PyInt(1)
    /\ returned = None

\* C5: when the cursor is before the end of the text and no rule matches at
\* it, the engine names the character at the cursor in an Illegal character
\* diagnostic and halts with status 1, returning no token sequence and not
\* advancing the cursor; and it is halted so only at such a cursor
C5_FatalOnNoMatch ==
    /\ [](pc = "exit" => Fatal /\ pos < Len(characters) /\ NoRuleMatches(pos))
    /\ [][(pc = "while" /\ pos < Len(characters) /\ NoRuleMatches(pos))
            => (Fatal' /\ pos' = pos /\ tokens' = tokens)]_vars

\* "1f" under a rule for digits: halted at the letter, with a token made
C5_Witness ==
    /\ pc = "exit"
    /\ pos > 0
    /\ tokens # <<>>
    /\ stderr = <<"Illegal character: ", "f">>

\* C10: each iteration of the cursor loop either halts fatally or strictly
\* increases the cursor, also when the first matching rule matches the
\* empty string
C10_CursorIncreases ==
    [][(pc = "while" /\ pos < Len(characters)) => (pc' = "exit" \/ pos' > pos)]_vars

----------------------------------------------------------------------------
(* The combinators *)

Called == result # NotCalled
ApplyOut(q, toks, ps) == Apply(q, toks, ps, LazyInit).out
IsIndex(ps) == ps.t = "int" /\ ps.i >= 0 /\ ps.i <= Len(call.tokens)

\* C1: if left succeeds at pos with (v1, p1) and right succeeds at p1 with
\* (v2, p2), concat(left, right) succeeds at pos with the pair (v1, v2) and
\* the position p2; if either fails, concat fails
C1_ConcatPairAtRightPos ==
    (Called /\ call.parser.kind = "Concat") =>
        LET l == ApplyOut(call.parser.left, call.tokens, call.pos)
            r == ApplyOut(call.parser.right, call.tokens, l.pos)
        IN /\ l.t = "None" => result = None
           /\ (l.t = "Result" /\ IsIndex(l.pos)) =>
                /\ r.t = "None" => result = None
                /\ r.t = "Result" => result = Result(PyTuple(l.value, r.value), r.pos)

\* the token at a position is the one a primitive parser accepts
Accepts(q, tok) ==
    /\ tok[2] = q.tag
    /\ q.kind = "Reserved" => tok[1] = q.value

\* C2: reserved(value, tag) and tag(tag) at a position 0 <= pos <= len(tokens),
\* the end of the tokens included, either succeed consuming one token or
\* return the absent outcome; they never raise
C2_PrimitiveNeverRaises ==
    (Called /\ call.parser.kind \in {"Reserved", "Tag"}) =>
        IF call.pos.i < Len(call.tokens) /\ Accepts(call.parser, call.tokens[call.pos.i + 1])
        THEN result = Result(PyStr(call.tokens[call.pos.i + 1][1]), PyInt(call.pos.i + 1))
        ELSE result = None

\* C3: precedence(aexpTerm, [[*, /], [+, -]], processBinop) at position 0 of
\* the tokens of a well-formed arithmetic expression succeeds with the tree
\* in which * and / bind tighter and a level groups to the left
C3_PrecedenceTree ==
    (Called /\ call.parser = aexp(0) /\ expected # None) =>
        (result.t = "Result" /\ result.value = expected)

RECURSIVE Run(_, _, _)
\* the tokens from position ps on that the primitive parser q accepts
Run(q, toks, ps) ==
    IF ps < Len(toks) /\ Accepts(q, toks[ps + 1])
    THEN <<PyStr(toks[ps + 1][1])>> \o Run(q, toks, ps + 1)
    ELSE <<>>

\* C7: rep(p) never fails: it succeeds with the list of the values of the
\* consecutive successful applications of p and the position after the last,
\* which is the empty list at pos when p fails at once
C7_RepNeverFails ==
    (Called /\ call.parser.kind = "Rep") =>
        LET values == Run(call.parser.parser, call.tokens, call.pos.i)
        IN result = Result(PyList(values), PyInt(call.pos.i + Len(values)))

OnePlusTwo ==
    << Tok(<<"1">>, "INT"), Tok(<<"+">>, "RESERVED"), Tok(<<"2">>, "INT") >>

\* C8: phrase(p) returns p's result when p succeeds with the position
\* len(tokens) and the absent outcome in every other case; with the grammar
\* as p, the tokens of 1 + 2 succeed and those of 1 + 2 ) fail
C8_PhraseFullConsumption ==
    (Called /\ call.parser.kind = "Phrase") =>
        LET r == ApplyOut(call.parser.parser, call.tokens, call.pos)
        IN /\ IF r.t = "Result" /\ r.pos = PyInt(Len(call.tokens))
              THEN result = r ELSE result = None
           /\ (call.parser.parser = aexp(0) /\ call.tokens = OnePlusTwo)
                => result.t = "Result"
           /\ (call.parser.parser = aexp(0)
                 /\ call.tokens = OnePlusTwo \o <<Tok(<<")">>, "RESERVED")>>)
                => result = None

----------------------------------------------------------------------------
(* Structural equality *)

\* C6: a.equals(b) is true iff b has the variant of a and every field of a
\* equals the field of b recursively, and false in every other case, for any
\* value b; it never fails
C6_EqualsTotal ==
    eq_result # "NotCalled" =>
        eq_result = IF eq_call.self = eq_call.other THEN "True" ELSE "False"

----------------------------------------------------------------------------
(* The deferred reference *)

\* C9: a Lazy object's producer is not called when the grammar is built; it
\* is called exactly once, at the object's first application; and every
\* application returns what the cached parser returns at the tokens and
\* position given
C9_LazyResolvesOnce ==
    /\ \A k \in InstIds :
          IF lazy.applied[k] = "never"
          THEN lazy.fn_calls[k] = 0 /\ lazy.parser[k] = None
          ELSE lazy.fn_calls[k] = 1 /\ lazy.parser[k] = aexp(k + 1)
    /\ (lazy_call # None /\ lazy_call.applied = "Lazy") =>
          /\ lazy.parser[0] # None
          /\ lazy_result = Apply(lazy.parser[0], lazy_call.tokens, lazy_call.pos, lazy).out

\* ((1)) parsed by a grammar whose Lazy objects 0 and 1 were applied before
C9_Witness ==
    /\ lazy_call # None
    /\ lazy_call.tokens = Nested
    /\ lazy.applied[0] = "again"
    /\ lazy.applied[1] = "again"
    /\ lazy.fn_calls[1] = 1

====
